---- MODULE Spec2Model ----
(***************************************************************************)
(* A model of cwrubacktest's simulation control loop                      *)
(* (backtest/backtest.py, BacktestTradingSession), of its rebalance        *)
(* schedule generator (trading_strats/rebalance.py, RebalanceGenerator),   *)
(* of its static allocation container (trading_strats/static_alloc.py,     *)
(* StaticAllocStrat) and of its flat fee model                             *)
(* (broker/fee_model/flat_fee_model.py, flat_fee_model).                   *)
(*                                                                         *)
(* Time.  A timestamp is an integer day * 3 + slot.  Day 0 is Thursday     *)
(* 2021-02-25; the slot is the time of day, one of the three instants the  *)
(* program distinguishes: 00:00:00 (a date given without a time),          *)
(* 14:30:00 (market open) and 21:00:00 (market close).  The timestamps of  *)
(* a session are UTC; the generator called directly is also given naive    *)
(* ones, and the timezone of what it returns is kept beside the result.    *)
(***************************************************************************)
EXTENDS Integers, Sequences, FiniteSets, TLC

VARIABLES
    phase,              \* "new", "ready", "running", "aborted", "failed",
                        \* "generated", "allocated", "rejected", "costed"
    error,              \* the exception a constructor raised, or "none"
    failed_args,        \* the arguments of a construction that raised
    start_dt,           \* BacktestTradingSession.start_dt
    end_dt,             \* BacktestTradingSession.end_dt
    rebalance_pd,       \* BacktestTradingSession.rebalance_pd
    burn_in_dt,         \* BacktestTradingSession.burn_in_dt (NoDt for None)
    signals,            \* whether a signals collection is configured
    rebalance_schedule, \* BacktestTradingSession.rebalance_schedule
    sim_engine,         \* the events the simulation engine has yet to yield
    broker,             \* the simulated broker's state
    signals_dt,         \* the timestamp the signals were last refreshed at
    stats,              \* stats['target_allocations'] of the run in progress
    equity_curve,       \* BacktestTradingSession.equity_curve
    target_allocations, \* BacktestTradingSession.target_allocations
    calls,              \* the collaborator calls made for the latest event
    processed,          \* history: every event run has consumed so far
    invocations,        \* history: every timestamp the trading system was called with
    runs,               \* history: how many run calls have completed
    returned,           \* what the latest accessor call returned
    recalled,           \* history: what each accessor returned since the latest run
    gen_args,           \* the arguments of a direct RebalanceGenerator(...)
    gen_result,         \* what that construction produced
    gen_tz,             \* the timezone of the timestamps it produced
    allocation,         \* the dict object the caller passed to StaticAllocStrat
    self_allocation,    \* StaticAllocStrat._allocation
    given_allocation,   \* history: the content of the dict at construction
    fee_args,           \* the rates and the arguments of a calc_total_cost call
    total_cost          \* what that call returned

vars == <<phase, error, failed_args, start_dt, end_dt, rebalance_pd, burn_in_dt,
          signals, rebalance_schedule, sim_engine, broker, signals_dt,
          stats, equity_curve, target_allocations, calls, processed, invocations,
          runs, returned, recalled, gen_args, gen_result, gen_tz, allocation,
          self_allocation, given_allocation, fee_args, total_cost>>

(***************************************************************************)
(* Bounds of the model.                                                    *)
(***************************************************************************)
\* A session starts on one of the days 0..MaxStartDay (Thursday to Monday).
MaxStartDay == 4
\* A short session ends 0..MaxSpan days after the day it starts on.
MaxSpan == 3
\* A burn-in date lies 0..MaxBurnIn days after the session's first day.
MaxBurnIn == 1
\* A long session starts on one of the days 0..MaxLongStart ...
MaxLongStart == 0
\* ... and ends on day LongEndDay (64 is Friday 2021-04-30) or the day before.
LongEndDay == 64
\* A direct call of the generator takes a range that starts on one of the
\* days 0..MaxGenStart and ends no later than day MaxGenDay.
MaxGenStart == 6
MaxGenDay == 36
\* run is called at most MaxRuns times on a session.
MaxRuns == 2

(***************************************************************************)
(* Timestamps and the calendar.                                            *)
(***************************************************************************)
NoDt == -1

Midnight == 0
MarketOpen == 1
MarketClose == 2

TimesOfDay == {Midnight, MarketOpen, MarketClose}

TS(day, slot) == day * 3 + slot

DayOf(dt) == dt \div 3

SlotOf(dt) == dt % 3

\* Monday is 0 and Sunday is 6, as in Timestamp.weekday().
Weekday(day) == (day + 3) % 7

\* Mon-Fri; neither pandas' BusinessDay nor bdate_range knows of holidays.
IsBusinessDay(day) == Weekday(day) < 5

\* The first days of February, March, ..., July 2021.
MonthFirstDay == <<-24, 4, 35, 65, 96, 126>>

NumMonths == Len(MonthFirstDay) - 1

MonthOf(day) == CHOOSE m \in 1..NumMonths :
                    MonthFirstDay[m] <= day /\ day < MonthFirstDay[m + 1]

MonthLastDay(m) == MonthFirstDay[m + 1] - 1

\* A faulty month end: the calendar month end ('ME' for 'BME').
LastCalendarDay(m) == MonthLastDay(m)

\* The business month end: the last Mon-Fri day of month m.
LastBusinessDay(m) ==
    IF IsBusinessDay(MonthLastDay(m)) THEN MonthLastDay(m)
    ELSE IF IsBusinessDay(MonthLastDay(m) - 1) THEN MonthLastDay(m) - 1
    ELSE MonthLastDay(m) - 2

\* A faulty offset: the next calendar day (Day() for BusinessDay()).
PlusCalendarDay(dt) == TS(DayOf(dt) + 1, SlotOf(dt))

\* dt + BusinessDay(): the next business day, at the same time of day.
PlusBusinessDay(dt) ==
    LET day == DayOf(dt)
        next == IF IsBusinessDay(day + 1) THEN day + 1
                ELSE IF IsBusinessDay(day + 2) THEN day + 2
                ELSE day + 3
    IN  TS(next, SlotOf(dt))

\* The integers lo..hi in increasing order, as a sequence.
DaySeq(lo, hi) == [i \in 1..(IF hi >= lo THEN hi - lo + 1 ELSE 0) |-> lo + i - 1]

(***************************************************************************)
(* RebalanceGenerator (trading_strats/rebalance.py).                       *)
(***************************************************************************)
DAILY == "DAILY"
WEEKLY == "WEEKLY"
MONTHLY == "MONTHLY"
NEVER == "NEVER"

RebalancePeriod == {DAILY, WEEKLY, MONTHLY, NEVER}

Ok(rebalances) == [error |-> "none", rebalances |-> rebalances]

Raise(kind) == [error |-> kind, rebalances |-> <<>>]

\* A faulty anchor: the two market times exchanged.
SetMarketTimeSwapped(pre_market) == IF pre_market THEN MarketClose ELSE MarketOpen

SetMarketTime(pre_market) == IF pre_market THEN MarketOpen ELSE MarketClose

\* bool(len(pd.bdate_range(start_dt, start_dt))): bdate_range normalizes.
GenIsBusinessDay(start) == IsBusinessDay(DayOf(start))

\* pd.bdate_range(start, end): the business days of the normalized range.
BDateRange(start, end) ==
    SelectSeq(DaySeq(DayOf(start), DayOf(end)), LAMBDA d : IsBusinessDay(d))

\* pd.date_range(start, end, freq='BME'): the business month ends, each at
\* start's time of day, that lie in [start, end]; the day of each.
BMEDateRange(start, end) ==
    LET InRange(m) == /\ start <= TS(LastBusinessDay(m), SlotOf(start))
                      /\ TS(LastBusinessDay(m), SlotOf(start)) <= end
        months == SelectSeq(DaySeq(MonthOf(DayOf(start)), MonthOf(DayOf(end))), InRange)
    IN  [i \in 1..Len(months) |-> LastBusinessDay(months[i])]

\* pd.Timestamp("%s %s" % (date, market_time), tz=pytz.utc)
AtMarketTime(day, market_time) == TS(day, market_time)

DailyRebalances(start, end, market_time) ==
    LET rebalance_dates == BDateRange(start, end)
    IN  Ok([i \in 1..Len(rebalance_dates) |->
               AtMarketTime(rebalance_dates[i], market_time)])

\* The WEEKLY case reads self.weekday and self.pre_market_time, which no
\* code of the class ever sets: evaluating the case raises AttributeError.
WeeklyRebalances(start, end, market_time) == Raise("AttributeError")

MonthlyRebalances(start, end, market_time) ==
    LET rebalance_dates == BMEDateRange(start, end)
    IN  Ok([i \in 1..Len(rebalance_dates) |->
               AtMarketTime(rebalance_dates[i], market_time)])

NeverRebalances(start) ==
    Ok(<<IF ~GenIsBusinessDay(start) THEN PlusBusinessDay(start) ELSE start>>)

GenerateRebalances(start, end, rebal_pd, market_time) ==
    CASE rebal_pd = DAILY -> DailyRebalances(start, end, market_time)
      [] rebal_pd = WEEKLY -> WeeklyRebalances(start, end, market_time)
      [] rebal_pd = MONTHLY -> MonthlyRebalances(start, end, market_time)
      [] rebal_pd = NEVER -> NeverRebalances(start)

\* The timezone of the start_dt and end_dt passed in: UTC, or none (naive).
TimeZones == {"UTC", "naive"}

\* The timezone of the timestamps returned.  DAILY, WEEKLY and MONTHLY build
\* each with pd.Timestamp(..., tz=pytz.utc); NEVER returns start_dt, or
\* start_dt + BusinessDay(), as it is.
RebalancesTz(rebal_pd, tz) == IF rebal_pd = NEVER THEN tz ELSE "UTC"

\* RebalanceGenerator(start_dt, end_dt, rebal_pd, pre_market)
RebalanceGenerator(start, end, rebal_pd, pre_market) ==
    GenerateRebalances(start, end, rebal_pd, SetMarketTime(pre_market))

(***************************************************************************)
(* The session's collaborators.  Their code is not part of the core; they  *)
(* are modelled from their contracts.                                      *)
(***************************************************************************)
MarketOpenEvent(day) == [ts |-> TS(day, MarketOpen), event_type |-> "market_open"]

MarketCloseEvent(day) == [ts |-> TS(day, MarketClose), event_type |-> "market_close"]

\* DailyBusinessDaySimulationEngine(start_dt, end_dt, pre_market=False,
\* post_market=False): a market_open and a market_close event for each
\* business day of the range, in chronological order.
SimulationEvents(start, end) ==
    LET InRange(d) == /\ IsBusinessDay(d)
                      /\ start <= TS(d, SlotOf(start))
                      /\ TS(d, SlotOf(start)) <= end
        days == SelectSeq(DaySeq(DayOf(start), DayOf(end)), InRange)
    IN  [i \in 1..(2 * Len(days)) |->
            IF i % 2 = 1 THEN MarketOpenEvent(days[(i + 1) \div 2])
                         ELSE MarketCloseEvent(days[i \div 2])]

\* SimulatedBroker(start_dt, ...), with its portfolio created and funded.
NewBroker(start) == [current_dt |-> start, orders |-> 0]

\* broker.update(dt)
BrokerUpdate(b, dt) == [b EXCEPT !.current_dt = dt]

\* The orders the trading system submits to the broker when it is invoked.
BrokerSubmitOrders(b) == [b EXCEPT !.orders = b.orders + 1]

\* broker.get_account_total_equity(): the equity is a function of the
\* broker's state, and is represented by the state it is computed from.
GetAccountTotalEquity(b) == [master |-> <<b.current_dt, b.orders>>]

\* qts(dt, stats=stats) appends the target allocation it computed at dt.
QtsRecord(dt) == [Date |-> dt]

(***************************************************************************)
(* BacktestTradingSession.__init__ (backtest/backtest.py).                 *)
(***************************************************************************)
NoArgs == [rebalance_pd |-> "none", rebalance_weekday |-> FALSE, long_only |-> FALSE,
           cash_buffer_percentage |-> FALSE, gross_leverage |-> FALSE]

\* _create_rebalance_event_times: the generator is built with no pre_market
\* argument and without the session's weekday.
CreateRebalanceEventTimes(start, end, rebal_pd) ==
    RebalanceGenerator(start, end, rebal_pd, FALSE)

\* The check of lines 102-111: WEEKLY needs the rebalance_weekday keyword.
WeekdayCheck(rebal_pd, has_weekday) ==
    IF rebal_pd = WEEKLY /\ ~has_weekday THEN "ValueError" ELSE "none"

\* _create_quant_trading_system: the keyword the order sizer needs.
CreateQuantTradingSystem(is_long_only, has_cash_buffer, has_gross_leverage) ==
    IF is_long_only
    THEN (IF ~has_cash_buffer THEN "ValueError" ELSE "none")
    ELSE (IF ~has_gross_leverage THEN "ValueError" ELSE "none")

\* The exception __init__ raises for these arguments, "none" if it returns:
\* the checks in the order the constructor makes them.
InitError(start, end, args) ==
    IF WeekdayCheck(args.rebalance_pd, args.rebalance_weekday) # "none"
    THEN WeekdayCheck(args.rebalance_pd, args.rebalance_weekday)
    ELSE IF CreateRebalanceEventTimes(start, end, args.rebalance_pd).error # "none"
    THEN CreateRebalanceEventTimes(start, end, args.rebalance_pd).error
    ELSE CreateQuantTradingSystem(args.long_only, args.cash_buffer_percentage,
                                  args.gross_leverage)

(***************************************************************************)
(* BacktestTradingSession.run: the handling of one event.                  *)
(***************************************************************************)
\* A faulty membership check: it matches the date and ignores the time.
IsRebalanceEventByDate(dt, schedule) ==
    \E i \in 1..Len(schedule) : DayOf(schedule[i]) = DayOf(dt)

\* An argument that is no timestamp and whose comparison with one raises.
Unequatable == -2

\* dt in self.rebalance_schedule: the list compares its elements with dt in
\* turn; a comparison that raises ends the search with the exception.
ListContains(dt, schedule) ==
    IF dt = Unequatable
    THEN (IF schedule = <<>> THEN "False" ELSE "raises")
    ELSE (IF \E i \in 1..Len(schedule) : schedule[i] = dt THEN "True" ELSE "False")

\* A faulty handler: an exception is answered with True.
IsRebalanceEventTrueOnError(dt, schedule) == ListContains(dt, schedule) # "False"

\* _is_rebalance_event: dt in self.rebalance_schedule, False if that raises.
IsRebalanceEvent(dt, schedule) ==
    IF ListContains(dt, schedule) = "raises" THEN FALSE
    ELSE ListContains(dt, schedule) = "True"

\* A faulty rebalance decision: the burn-in date is not consulted.
ShouldRebalanceIgnoringBurnIn(dt, burn_in, schedule) == IsRebalanceEvent(dt, schedule)

\* A faulty rebalance decision: the burn-in instant itself is excluded.
ShouldRebalanceAfterBurnIn(dt, burn_in, schedule) ==
    IF burn_in # NoDt
    THEN (IF dt > burn_in THEN IsRebalanceEvent(dt, schedule) ELSE FALSE)
    ELSE IsRebalanceEvent(dt, schedule)

\* Lines 380-396: whether the trading system is invoked at dt.
ShouldRebalance(dt, burn_in, schedule) ==
    IF burn_in # NoDt
    THEN (IF dt >= burn_in THEN IsRebalanceEvent(dt, schedule) ELSE FALSE)
    ELSE IsRebalanceEvent(dt, schedule)

\* A faulty equity decision: the event's type is not consulted.
ShouldUpdateEquityCurveAnyEvent(event, burn_in) ==
    IF burn_in # NoDt THEN event.ts >= burn_in ELSE TRUE

\* Lines 398-403: whether the equity curve is updated for the event.
ShouldUpdateEquityCurve(event, burn_in) ==
    IF event.event_type = "market_close"
    THEN (IF burn_in # NoDt THEN event.ts >= burn_in ELSE TRUE)
    ELSE FALSE

\* A faulty refresh: the signals are refreshed at every event.
ShouldUpdateSignalsAnyEvent(event, has_signals) == has_signals

\* Line 377: whether the signals are refreshed for the event.
ShouldUpdateSignals(event, has_signals) ==
    has_signals /\ event.event_type = "market_close"

\* A faulty update: the curve is replaced by the new record.
UpdateEquityCurveOverwrite(curve, dt, b) == <<<<dt, GetAccountTotalEquity(b).master>>>>

\* _update_equity_curve(dt), with the broker as it is at the call.
UpdateEquityCurve(curve, dt, b) ==
    Append(curve, <<dt, GetAccountTotalEquity(b).master>>)

Call(op, dt) == [op |-> op, dt |-> dt]

\* The broker after the event's update and the orders of a rebalance.
BrokerAfterEvent(b, dt, rebalance) ==
    IF rebalance THEN BrokerSubmitOrders(BrokerUpdate(b, dt)) ELSE BrokerUpdate(b, dt)

\* A faulty loop body: the equity is read before the trading system runs.
CallsOfEventEquityFirst(event, has_signals, burn_in, schedule) ==
    <<Call("broker.update", event.ts)>>
    \o (IF ShouldUpdateSignals(event, has_signals)
        THEN <<Call("signals.update", event.ts)>> ELSE <<>>)
    \o (IF ShouldUpdateEquityCurve(event, burn_in)
        THEN <<Call("broker.get_account_total_equity", event.ts)>> ELSE <<>>)
    \o (IF ShouldRebalance(event.ts, burn_in, schedule)
        THEN <<Call("qts", event.ts)>> ELSE <<>>)

\* The collaborator calls of one pass through the loop body, in order.
CallsOfEvent(event, has_signals, burn_in, schedule) ==
    <<Call("broker.update", event.ts)>>
    \o (IF ShouldUpdateSignals(event, has_signals)
        THEN <<Call("signals.update", event.ts)>> ELSE <<>>)
    \o (IF ShouldRebalance(event.ts, burn_in, schedule)
        THEN <<Call("qts", event.ts)>> ELSE <<>>)
    \o (IF ShouldUpdateEquityCurve(event, burn_in)
        THEN <<Call("broker.get_account_total_equity", event.ts)>> ELSE <<>>)

(***************************************************************************)
(* The accessors.                                                          *)
(***************************************************************************)
NoReturn == [op |-> "none", error |-> "none", rows |-> <<>>]

\* Neither accessor has been called.
NoRecall == [get_equity_curve |-> NoReturn, get_target_allocations |-> NoReturn]

\* get_equity_curve: the curve indexed by date.  An empty curve gives an
\* index that is no DatetimeIndex, and reading its .date raises.
EquityCurveFrame(curve) ==
    IF curve = <<>>
    THEN [op |-> "get_equity_curve", error |-> "AttributeError", rows |-> <<>>]
    ELSE [op |-> "get_equity_curve", error |-> "none",
          rows |-> [i \in 1..Len(curve) |->
                       [Date |-> DayOf(curve[i][1]), value |-> curve[i][2]]]]

\* reindex(index=..., method='ffill'): the Date of the latest allocation
\* dated on or before day, NoDt (a row of NaN) when there is none.
ForwardFill(allocs, day) ==
    LET before == {i \in 1..Len(allocs) : DayOf(allocs[i].Date) <= day}
    IN  IF before = {} THEN NoDt
        ELSE allocs[CHOOSE i \in before : \A j \in before : j <= i].Date

\* get_target_allocations: an empty history has no 'Date' column to index by.
TargetAllocationsFrame(curve, allocs, burn_in) ==
    IF EquityCurveFrame(curve).error # "none"
    THEN [EquityCurveFrame(curve) EXCEPT !.op = "get_target_allocations"]
    ELSE IF allocs = <<>>
    THEN [op |-> "get_target_allocations", error |-> "KeyError", rows |-> <<>>]
    ELSE LET eq == EquityCurveFrame(curve).rows
             filled == [i \in 1..Len(eq) |->
                           [Date |-> eq[i].Date,
                            value |-> <<ForwardFill(allocs, eq[i].Date), 0>>]]
         IN  [op |-> "get_target_allocations", error |-> "none",
              rows |-> IF burn_in # NoDt
                       THEN SelectSeq(filled, LAMBDA r : r.Date >= DayOf(burn_in))
                       ELSE filled]

(***************************************************************************)
(* StaticAllocStrat (trading_strats/static_alloc.py).  A dict is the        *)
(* sequence of its <<ticker, weight>> items in insertion order, the        *)
(* tickers distinct.  Weights are counted in units of 5e-7, in exact       *)
(* arithmetic: 1.0 is One and the tolerance 1e-6 is Tolerance.             *)
(***************************************************************************)
One == 2000000

Tolerance == 2

Half == One \div 2

Abs(x) == IF x < 0 THEN -x ELSE x

RECURSIVE SumWeights(_)
SumWeights(items) ==
    IF items = <<>> THEN 0 ELSE items[1][2] + SumWeights(Tail(items))

\* A faulty constructor: the sum is checked before the signs of the weights.
AllocErrorSumFirst(arg) ==
    IF arg.items = <<>> THEN "ValueError: dictionary cannot be empty"
    ELSE IF arg.kind # "dict" THEN "TypeError: allocation must be a dictionary"
    ELSE IF ~(Abs(SumWeights(arg.items) - One) < Tolerance)
        THEN "ValueError: Weights must sum to 1"
    ELSE IF \E i \in 1..Len(arg.items) : arg.items[i][2] <= 0
        THEN "ValueError: all weights must be greater than zero"
    ELSE "none"

\* StaticAllocStrat.__init__, lines 7-18: the exception raised, or "none".
AllocError(arg) ==
    IF arg.items = <<>> THEN "ValueError: dictionary cannot be empty"
    ELSE IF arg.kind # "dict" THEN "TypeError: allocation must be a dictionary"
    ELSE IF \E i \in 1..Len(arg.items) : arg.items[i][2] <= 0
        THEN "ValueError: all weights must be greater than zero"
    ELSE IF ~(Abs(SumWeights(arg.items) - One) < Tolerance)
        THEN "ValueError: Weights must sum to 1"
    ELSE "none"

GetTickers(a) == [i \in 1..Len(a.items) |-> a.items[i][1]]

GetWeights(a) == [i \in 1..Len(a.items) |-> a.items[i][2]]

\* d[ticker] = weight: an existing key keeps its place, a new one goes last.
DictSet(d, ticker, weight) ==
    IF \E i \in 1..Len(d.items) : d.items[i][1] = ticker
    THEN [d EXCEPT !.items = [i \in 1..Len(d.items) |->
                                 IF d.items[i][1] = ticker THEN <<ticker, weight>>
                                                           ELSE d.items[i]]]
    ELSE [d EXCEPT !.items = Append(d.items, <<ticker, weight>>)]

\* del d[ticker]
DictDel(d, ticker) ==
    [d EXCEPT !.items = SelectSeq(d.items, LAMBDA item : item[1] # ticker)]

(***************************************************************************)
(* flat_fee_model (broker/fee_model/flat_fee_model.py).  Rates are counted *)
(* in thousandths of a currency unit per share, costs in thousandths of a  *)
(* currency unit.                                                          *)
(***************************************************************************)
\* A faulty commission: the sign of the quantity kept.
CalcCommissionSigned(fee_per_share, asset, quantity, consideration, a_broker) ==
    quantity * fee_per_share

\* flat_fee_model._calc_commission
CalcCommission(fee_per_share, asset, quantity, consideration, a_broker) ==
    Abs(quantity) * fee_per_share

\* flat_fee_model._calc_tax
CalcTax(tax_per_share, asset, quantity, consideration, a_broker) ==
    Abs(quantity) * tax_per_share

\* flat_fee_model.calc_total_cost
CalcTotalCost(fee_per_share, tax_per_share, asset, quantity, consideration, a_broker) ==
    LET commission == CalcCommission(fee_per_share, asset, quantity, consideration, a_broker)
        tax == CalcTax(tax_per_share, asset, quantity, consideration, a_broker)
    IN  commission + tax

(***************************************************************************)
(* The inputs the model draws.                                             *)
(***************************************************************************)
DateOrClose == {Midnight, MarketClose}

ShortRanges ==
    {r \in {<<TS(d, t), TS(d + k, u)>> :
                d \in 0..MaxStartDay, t \in TimesOfDay, k \in 0..MaxSpan, u \in DateOrClose} :
        r[1] <= r[2]}

LongRanges ==
    {<<TS(d, t), TS(e, u)>> :
        d \in 0..MaxLongStart, e \in (LongEndDay - 1)..LongEndDay,
        t \in DateOrClose, u \in DateOrClose}

\* No burn-in, a date or a close in the first days of the range, or the
\* first instant of the schedule.
BurnInDates(start, schedule) ==
    {NoDt} \cup {TS(DayOf(start) + k, t) : k \in 0..MaxBurnIn, t \in DateOrClose}
           \cup (IF schedule = <<>> THEN {} ELSE {schedule[1]})

LongBurnInDates(schedule) ==
    {NoDt} \cup (IF schedule = <<>> THEN {} ELSE {schedule[1]})

\* What _is_rebalance_event is asked about: a date or a close of the
\* session's first day, the first instant of the schedule, or a value that
\* cannot be compared with a timestamp.
MembershipArgs(start, schedule) ==
    {Unequatable} \cup {TS(DayOf(start), t) : t \in DateOrClose}
                  \cup (IF schedule = <<>> THEN {} ELSE {schedule[1]})

SessionArgs ==
    [rebalance_pd : RebalancePeriod, rebalance_weekday : BOOLEAN, long_only : BOOLEAN,
     cash_buffer_percentage : BOOLEAN, gross_leverage : BOOLEAN]

GenRanges ==
    {r \in {<<TS(d, t), TS(e, u)>> :
                d \in 0..MaxGenStart, e \in 0..MaxGenDay, t \in DateOrClose, u \in DateOrClose} :
        r[1] <= r[2]}

NoGenArgs ==
    [start_dt |-> NoDt, end_dt |-> NoDt, tz |-> "UTC", rebal_pd |-> "none",
     pre_market |-> FALSE]

Tickers == {"A", "B"}

Weights == {-Half, 0, Half - 1, Half, Half + 1, One, One + Half}

\* The item lists of at most two items, the tickers distinct.
ItemLists ==
    {<<>>} \cup {<<<<t, w>>>> : t \in Tickers, w \in Weights}
           \cup {items \in {<<<<t, w>>, <<u, x>>>> :
                                t \in Tickers, w \in Weights, u \in Tickers, x \in Weights} :
                    items[1][1] # items[2][1]}

\* What the caller passes as allocation: a dict, or a list of pairs.
AllocationArgs == [kind : {"dict", "list"}, items : ItemLists]

NoAllocation == [kind |-> "none", items |-> <<>>]

\* flat_fee_model(fee_per_share, tax_per_share).calc_total_cost(asset,
\* quantity, consideration, broker): the constructor accepts any rates.
FeeArgs ==
    [fee_per_share : {-10, 0, 10}, tax_per_share : {0, 2}, asset : {"EQ:A", "EQ:B"},
     quantity : {-100, -1, 0, 1, 100}, consideration : {-1000, 0, 1000},
     broker : {"None", "broker"}]

NoFeeArgs ==
    [fee_per_share |-> 0, tax_per_share |-> 0, asset |-> "none", quantity |-> 0,
     consideration |-> 0, broker |-> "None"]

(***************************************************************************)
(* The state machine.                                                      *)
(***************************************************************************)
Init ==
    /\ phase = "new"
    /\ error = "none"
    /\ failed_args = NoArgs
    /\ start_dt = NoDt
    /\ end_dt = NoDt
    /\ rebalance_pd = "none"
    /\ burn_in_dt = NoDt
    /\ signals = FALSE
    /\ rebalance_schedule = <<>>
    /\ sim_engine = <<>>
    /\ broker = NewBroker(NoDt)
    /\ signals_dt = NoDt
    /\ stats = <<>>
    /\ equity_curve = <<>>
    /\ target_allocations = <<>>
    /\ calls = <<>>
    /\ processed = <<>>
    /\ invocations = <<>>
    /\ runs = 0
    /\ returned = NoReturn
    /\ recalled = NoRecall
    /\ gen_args = NoGenArgs
    /\ gen_result = Ok(<<>>)
    /\ gen_tz = "UTC"
    /\ allocation = NoAllocation
    /\ self_allocation = NoAllocation
    /\ given_allocation = NoAllocation
    /\ fee_args = NoFeeArgs
    /\ total_cost = 0

\* The allocation container and the fee model: objects of their own.
valueObjects == <<allocation, self_allocation, given_allocation, fee_args, total_cost>>

sessionState == <<start_dt, end_dt, rebalance_pd, burn_in_dt, signals,
                  rebalance_schedule, sim_engine, broker, signals_dt, stats,
                  equity_curve, target_allocations, calls, processed, invocations,
                  runs, returned, recalled>>

\* BacktestTradingSession(start, end, ..., burn_in_dt=burn_in, **kwargs) returns.
Constructed(start, end, burn_in, has_signals, args) ==
    /\ InitError(start, end, args) = "none"
    /\ phase' = "ready"
    /\ start_dt' = start
    /\ end_dt' = end
    /\ rebalance_pd' = args.rebalance_pd
    /\ burn_in_dt' = burn_in
    /\ signals' = has_signals
    /\ rebalance_schedule' = CreateRebalanceEventTimes(start, end, args.rebalance_pd).rebalances
    /\ sim_engine' = SimulationEvents(start, end)
    /\ broker' = NewBroker(start)
    /\ equity_curve' = <<>>
    /\ target_allocations' = <<>>
    /\ UNCHANGED <<error, failed_args, signals_dt, stats, calls, processed,
                   invocations, runs, returned, recalled, gen_args, gen_result, gen_tz,
                   valueObjects>>

\* BacktestTradingSession(...) raises: no session is built.
ConstructFailed(start, end, args) ==
    /\ InitError(start, end, args) # "none"
    /\ phase' = "failed"
    /\ error' = InitError(start, end, args)
    /\ failed_args' = args
    /\ UNCHANGED <<sessionState, gen_args, gen_result, gen_tz,
                   valueObjects>>

Construct ==
    /\ phase = "new"
    /\ \E args \in SessionArgs :
          \/ \E r \in ShortRanges, has_signals \in BOOLEAN :
                \E burn_in \in BurnInDates(r[1],
                        CreateRebalanceEventTimes(r[1], r[2], args.rebalance_pd).rebalances) :
                    Constructed(r[1], r[2], burn_in, has_signals, args)
          \/ \E r \in LongRanges, has_signals \in BOOLEAN :
                \E burn_in \in LongBurnInDates(
                        CreateRebalanceEventTimes(r[1], r[2], args.rebalance_pd).rebalances) :
                    Constructed(r[1], r[2], burn_in, has_signals, args)
          \/ \E r \in ShortRanges : ConstructFailed(r[1], r[2], args)

\* RebalanceGenerator(start, end, rebal_pd, pre_market), called directly.
Generate ==
    /\ phase = "new"
    /\ \E r \in GenRanges, tz \in TimeZones, rebal_pd \in RebalancePeriod,
          pre_market \in BOOLEAN :
          /\ gen_args' = [start_dt |-> r[1], end_dt |-> r[2], tz |-> tz,
                          rebal_pd |-> rebal_pd, pre_market |-> pre_market]
          /\ gen_result' = RebalanceGenerator(r[1], r[2], rebal_pd, pre_market)
          /\ gen_tz' = RebalancesTz(rebal_pd, tz)
    /\ phase' = "generated"
    /\ UNCHANGED <<error, failed_args, sessionState, valueObjects>>

\* run(): line 367, before the first event is taken.
RunBegin ==
    /\ phase = "ready"
    /\ runs < MaxRuns
    /\ phase' = "running"
    /\ stats' = <<>>
    /\ calls' = <<>>
    /\ returned' = NoReturn
    /\ recalled' = NoRecall
    /\ UNCHANGED <<error, failed_args, start_dt, end_dt, rebalance_pd, burn_in_dt,
                   signals, rebalance_schedule, sim_engine, broker,
                   signals_dt, equity_curve, target_allocations, processed,
                   invocations, runs, gen_args, gen_result, gen_tz,
                   valueObjects>>

\* run(): one pass through the loop body, lines 369-403.
RunEvent ==
    /\ phase = "running"
    /\ sim_engine # <<>>
    /\ LET event == Head(sim_engine)
           dt == event.ts
           rebalance == ShouldRebalance(dt, burn_in_dt, rebalance_schedule)
           after == BrokerAfterEvent(broker, dt, rebalance)
       IN  /\ sim_engine' = Tail(sim_engine)
           /\ broker' = after
           /\ signals_dt' = IF ShouldUpdateSignals(event, signals) THEN dt ELSE signals_dt
           /\ stats' = IF rebalance THEN Append(stats, QtsRecord(dt)) ELSE stats
           /\ invocations' = IF rebalance THEN Append(invocations, dt) ELSE invocations
           /\ equity_curve' = IF ShouldUpdateEquityCurve(event, burn_in_dt)
                              THEN UpdateEquityCurve(equity_curve, dt, after)
                              ELSE equity_curve
           /\ calls' = CallsOfEvent(event, signals, burn_in_dt, rebalance_schedule)
           /\ processed' = Append(processed, event)
    /\ UNCHANGED <<phase, error, failed_args, start_dt, end_dt, rebalance_pd, burn_in_dt,
                   signals, rebalance_schedule, target_allocations, runs,
                   returned, recalled, gen_args, gen_result, gen_tz,
                   valueObjects>>

\* The collaborator calls of the loop body that the claims consider as
\* raising: the broker's update, made for every event, and the trading
\* system, when the event is one it is invoked for.
FailingCalls(event, burn_in, schedule) ==
    {"broker.update"} \cup (IF ShouldRebalance(event.ts, burn_in, schedule)
                            THEN {"qts"} ELSE {})

\* The collaborator calls made up to, and including, the one that raised.
CallsUntilFailure(event, has_signals, failing) ==
    IF failing = "broker.update" THEN <<Call("broker.update", event.ts)>>
    ELSE <<Call("broker.update", event.ts)>>
         \o (IF ShouldUpdateSignals(event, has_signals)
             THEN <<Call("signals.update", event.ts)>> ELSE <<>>)
         \o <<Call("qts", event.ts)>>

\* What the loop body has changed when the call `failing` raises: nothing
\* at line 375; the broker's clock and the signals at lines 388/396.
FailureEffects(event, failing) ==
    /\ broker' = IF failing = "qts" THEN BrokerUpdate(broker, event.ts) ELSE broker
    /\ signals_dt' = IF failing = "qts" /\ ShouldUpdateSignals(event, signals)
                      THEN event.ts ELSE signals_dt
    /\ invocations' = IF failing = "qts" THEN Append(invocations, event.ts)
                                         ELSE invocations
    /\ calls' = CallsUntilFailure(event, signals, failing)
    /\ error' = IF failing = "qts" THEN "raised by qts" ELSE "raised by broker.update"
    /\ sim_engine' = Tail(sim_engine)
    /\ processed' = Append(processed, event)

\* A faulty loop: the exception is caught and the loop goes on.
RunEventFailsSuppressed ==
    /\ phase = "running"
    /\ sim_engine # <<>>
    /\ \E failing \in FailingCalls(Head(sim_engine), burn_in_dt, rebalance_schedule) :
          FailureEffects(Head(sim_engine), failing)
    /\ UNCHANGED <<phase, failed_args, start_dt, end_dt, rebalance_pd, burn_in_dt,
                   signals, rebalance_schedule, stats, equity_curve, target_allocations,
                   runs, returned, recalled, gen_args, gen_result, gen_tz,
                   valueObjects>>

\* run(): one pass through the loop body, lines 369-403, in which a
\* collaborator raises.  No statement of run catches the exception: it
\* leaves the loop and line 405 is not reached.
RunEventFails ==
    /\ phase = "running"
    /\ sim_engine # <<>>
    /\ \E failing \in FailingCalls(Head(sim_engine), burn_in_dt, rebalance_schedule) :
          FailureEffects(Head(sim_engine), failing)
    /\ phase' = "aborted"
    /\ UNCHANGED <<failed_args, start_dt, end_dt, rebalance_pd, burn_in_dt,
                   signals, rebalance_schedule, stats, equity_curve, target_allocations,
                   runs, returned, recalled, gen_args, gen_result, gen_tz,
                   valueObjects>>

\* A faulty end of run: the schedule is used up by the run.
RunEndClearingSchedule ==
    /\ phase = "running"
    /\ sim_engine = <<>>
    /\ target_allocations' = stats
    /\ rebalance_schedule' = <<>>
    /\ phase' = "ready"
    /\ runs' = runs + 1
    /\ UNCHANGED <<error, failed_args, start_dt, end_dt, rebalance_pd, burn_in_dt,
                   signals, sim_engine, broker,
                   signals_dt, stats, equity_curve, calls, processed, invocations,
                   returned, recalled, gen_args, gen_result, gen_tz,
                   valueObjects>>

\* run(): line 405, once the event stream has ended.
RunEnd ==
    /\ phase = "running"
    /\ sim_engine = <<>>
    /\ target_allocations' = stats
    /\ phase' = "ready"
    /\ runs' = runs + 1
    /\ UNCHANGED <<error, failed_args, start_dt, end_dt, rebalance_pd, burn_in_dt,
                   signals, rebalance_schedule, sim_engine, broker,
                   signals_dt, stats, equity_curve, calls, processed, invocations,
                   returned, recalled, gen_args, gen_result, gen_tz,
                   valueObjects>>

\* A faulty accessor: it hands the records over and keeps none.
GetEquityCurveDraining ==
    /\ phase = "ready"
    /\ returned' = EquityCurveFrame(equity_curve)
    /\ recalled' = [recalled EXCEPT !.get_equity_curve = EquityCurveFrame(equity_curve)]
    /\ equity_curve' = <<>>
    /\ UNCHANGED <<phase, error, failed_args, start_dt, end_dt, rebalance_pd, burn_in_dt,
                   signals, rebalance_schedule, sim_engine, broker,
                   signals_dt, stats, target_allocations, calls,
                   processed, invocations, runs, gen_args, gen_result, gen_tz,
                   valueObjects>>

GetEquityCurve ==
    /\ phase = "ready"
    /\ returned' = EquityCurveFrame(equity_curve)
    /\ recalled' = [recalled EXCEPT !.get_equity_curve = EquityCurveFrame(equity_curve)]
    /\ UNCHANGED <<phase, error, failed_args, start_dt, end_dt, rebalance_pd, burn_in_dt,
                   signals, rebalance_schedule, sim_engine, broker,
                   signals_dt, stats, equity_curve, target_allocations, calls,
                   processed, invocations, runs, gen_args, gen_result, gen_tz,
                   valueObjects>>

GetTargetAllocations ==
    /\ phase = "ready"
    /\ returned' = TargetAllocationsFrame(equity_curve, target_allocations, burn_in_dt)
    /\ recalled' = [recalled EXCEPT !.get_target_allocations =
                        TargetAllocationsFrame(equity_curve, target_allocations, burn_in_dt)]
    /\ UNCHANGED <<phase, error, failed_args, start_dt, end_dt, rebalance_pd, burn_in_dt,
                   signals, rebalance_schedule, sim_engine, broker,
                   signals_dt, stats, equity_curve, target_allocations, calls,
                   processed, invocations, runs, gen_args, gen_result, gen_tz,
                   valueObjects>>

\* StaticAllocStrat(arg) returns: line 20 binds _allocation to the caller's
\* dict object itself.
AllocationBuilt(arg) ==
    /\ AllocError(arg) = "none"
    /\ phase' = "allocated"
    /\ allocation' = arg
    /\ self_allocation' = arg
    /\ given_allocation' = arg
    /\ UNCHANGED error

\* StaticAllocStrat(arg) raises: no container is built.
AllocationRejected(arg) ==
    /\ AllocError(arg) # "none"
    /\ phase' = "rejected"
    /\ error' = AllocError(arg)
    /\ allocation' = arg
    /\ given_allocation' = arg
    /\ UNCHANGED self_allocation

ConstructAllocation ==
    /\ phase = "new"
    /\ \E arg \in AllocationArgs : AllocationBuilt(arg) \/ AllocationRejected(arg)
    /\ UNCHANGED <<failed_args, sessionState, gen_args, gen_result, gen_tz,
                   fee_args, total_cost>>

\* The caller writes to the dict it passed: d[ticker] = weight.  The
\* container holds the same object, so it sees the write.
CallerSetsItem ==
    /\ phase = "allocated"
    /\ \E ticker \in Tickers, weight \in Weights :
          /\ allocation' = DictSet(allocation, ticker, weight)
          /\ self_allocation' = DictSet(allocation, ticker, weight)
    /\ UNCHANGED <<phase, error, failed_args, sessionState, gen_args, gen_result,
                   gen_tz, given_allocation, fee_args, total_cost>>

\* The caller removes a key of the dict it passed: del d[ticker].
CallerDeletesItem ==
    /\ phase = "allocated"
    /\ \E ticker \in {allocation.items[i][1] : i \in 1..Len(allocation.items)} :
          /\ allocation' = DictDel(allocation, ticker)
          /\ self_allocation' = DictDel(allocation, ticker)
    /\ UNCHANGED <<phase, error, failed_args, sessionState, gen_args, gen_result,
                   gen_tz, given_allocation, fee_args, total_cost>>

\* flat_fee_model(...).calc_total_cost(...)
CalcTotalCostCall ==
    /\ phase = "new"
    /\ \E args \in FeeArgs :
          /\ fee_args' = args
          /\ total_cost' = CalcTotalCost(args.fee_per_share, args.tax_per_share, args.asset,
                                         args.quantity, args.consideration, args.broker)
    /\ phase' = "costed"
    /\ UNCHANGED <<error, failed_args, sessionState, gen_args, gen_result, gen_tz,
                   allocation, self_allocation, given_allocation>>

\* session._is_rebalance_event(dt), called on a session at rest.
IsRebalanceEventCall ==
    /\ phase = "ready"
    /\ \E dt \in MembershipArgs(start_dt, rebalance_schedule) :
          returned' = [op |-> "_is_rebalance_event", error |-> "none", rows |-> <<>>,
                       dt |-> dt, result |-> IsRebalanceEvent(dt, rebalance_schedule)]
    /\ UNCHANGED recalled
    /\ UNCHANGED <<phase, error, failed_args, start_dt, end_dt, rebalance_pd, burn_in_dt,
                   signals, rebalance_schedule, sim_engine, broker,
                   signals_dt, stats, equity_curve, target_allocations, calls,
                   processed, invocations, runs, gen_args, gen_result, gen_tz,
                   valueObjects>>

Next ==
    \/ Construct
    \/ Generate
    \/ RunBegin
    \/ RunEvent
    \/ RunEnd
    \/ GetEquityCurve
    \/ GetTargetAllocations
    \/ IsRebalanceEventCall
    \/ ConstructAllocation
    \/ CallerSetsItem
    \/ CallerDeletesItem
    \/ CalcTotalCostCall

Spec == Init /\ [][Next]_vars

\* The runs of a session whose broker and trading system may raise.
FailureNext ==
    \/ Construct
    \/ RunBegin
    \/ RunEvent
    \/ RunEventFails
    \/ RunEnd

FailureSpec == Init /\ [][FailureNext]_vars

(***************************************************************************)
(* Vocabulary of the properties.  These are stated on the variables and    *)
(* the calendar alone, not through the operators that model the loop.      *)
(***************************************************************************)
\* run is about to handle the event at the head of the stream.
AtEvent == phase = "running" /\ sim_engine # <<>>

NextEvent == Head(sim_engine)

IsClose(e) == e.event_type = "market_close"

PassesBurnIn(dt) == burn_in_dt = NoDt \/ dt >= burn_in_dt

Scheduled(dt) == dt \in {rebalance_schedule[i] : i \in 1..Len(rebalance_schedule)}

QtsCalls(log) == SelectSeq(log, LAMBDA c : c.op = "qts")

IsPrefix(s, t) == Len(s) <= Len(t) /\ \A i \in 1..Len(s) : s[i] = t[i]

\* C1: while run handles an event dated strictly before burn_in_dt the
\* trading system is not called and neither the equity curve nor the
\* target-allocation accumulator grows, whatever the schedule and the
\* event's type; an event dated exactly burn_in_dt is eligible: a close
\* adds an equity record and a scheduled instant invokes the trading system.
C1_BurnInFilter ==
    [][AtEvent /\ burn_in_dt # NoDt =>
          /\ NextEvent.ts < burn_in_dt =>
                /\ equity_curve' = equity_curve
                /\ stats' = stats
                /\ invocations' = invocations
                /\ QtsCalls(calls') = <<>>
          /\ NextEvent.ts = burn_in_dt =>
                /\ IsClose(NextEvent) => Len(equity_curve') = Len(equity_curve) + 1
                /\ Scheduled(NextEvent.ts) =>
                      /\ Len(invocations') = Len(invocations) + 1
                      /\ Len(stats') = Len(stats) + 1]_vars

\* A scheduled close before burn-in and the close dated burn_in_dt, itself
\* scheduled, have both been handled.
C1_Witness ==
    /\ burn_in_dt # NoDt
    /\ \E i \in 1..Len(processed) :
          /\ processed[i].ts < burn_in_dt
          /\ IsClose(processed[i])
          /\ Scheduled(processed[i].ts)
    /\ \E j \in 1..Len(processed) :
          /\ processed[j].ts = burn_in_dt
          /\ IsClose(processed[j])
          /\ Scheduled(processed[j].ts)
    /\ invocations = <<burn_in_dt>>
    /\ Len(equity_curve) = 1

\* C2: handling an event invokes the trading system exactly once, with the
\* event's timestamp, when the event passes the burn-in filter and its
\* timestamp is a member of the schedule, and not at all otherwise; no
\* other step invokes it, so a scheduled instant absent from the stream is
\* never made up for on a later event.
C2_RebalanceIffScheduled ==
    [][IF AtEvent
       THEN LET fire == PassesBurnIn(NextEvent.ts) /\ Scheduled(NextEvent.ts)
            IN  /\ invocations' = IF fire THEN Append(invocations, NextEvent.ts)
                                          ELSE invocations
                /\ QtsCalls(calls') = IF fire THEN <<Call("qts", NextEvent.ts)>>
                                              ELSE <<>>
       ELSE invocations' = invocations]_vars

\* Four events handled: a scheduled close before burn-in, an unscheduled
\* open, and the one scheduled eligible close, the only invocation.
C2_Witness ==
    /\ burn_in_dt # NoDt
    /\ Len(processed) = 4
    /\ Scheduled(processed[2].ts) /\ processed[2].ts < burn_in_dt
    /\ ~Scheduled(processed[3].ts) /\ processed[3].ts >= burn_in_dt
    /\ Scheduled(processed[4].ts)
    /\ invocations = <<processed[4].ts>>
    /\ QtsCalls(calls) = <<Call("qts", processed[4].ts)>>

\* C3: handling an event appends exactly one record, the event's timestamp
\* with the broker's 'master' equity as it is once the event's update and
\* orders are in, when the event is a market close that passes the burn-in
\* filter, and leaves the curve alone otherwise; the schedule plays no part,
\* and no other step touches the curve.
C3_EquityIffEligibleClose ==
    [][IF AtEvent
       THEN equity_curve' =
                IF IsClose(NextEvent) /\ PassesBurnIn(NextEvent.ts)
                THEN Append(equity_curve,
                            <<NextEvent.ts, <<broker'.current_dt, broker'.orders>>>>)
                ELSE equity_curve
       ELSE equity_curve' = equity_curve]_vars

\* A scheduled open invoked the trading system and added no record; the
\* unscheduled close after it added one, read after the orders.
C3_Witness ==
    /\ Len(processed) = 2
    /\ ~IsClose(processed[1]) /\ Scheduled(processed[1].ts)
    /\ IsClose(processed[2]) /\ ~Scheduled(processed[2].ts)
    /\ invocations = <<processed[1].ts>>
    /\ equity_curve = <<<<processed[2].ts, <<processed[2].ts, 1>>>>>>

\* The closes run has consumed that pass the burn-in filter.
RetainedCloses ==
    SelectSeq(processed, LAMBDA e : IsClose(e) /\ PassesBurnIn(e.ts))

\* C4: the equity curve only ever grows by appending, it holds one entry
\* per retained market-close event, in order, and its dates are strictly
\* increasing, also when run is called again and across accessor calls.
C4_EquityCurveShape ==
    /\ [](/\ Len(equity_curve) = Len(RetainedCloses)
          /\ \A i \in 1..Len(equity_curve) : equity_curve[i][1] = RetainedCloses[i].ts
          /\ \A i \in 1..(Len(equity_curve) - 1) :
                DayOf(equity_curve[i][1]) < DayOf(equity_curve[i + 1][1]))
    /\ [][IsPrefix(equity_curve, equity_curve')]_vars

\* A second run has completed, after accessor calls, on a session whose
\* curve holds several entries and whose burn-in dropped a close.
C4_Witness ==
    /\ phase = "ready" /\ runs = 2
    /\ returned.op = "get_target_allocations"
    /\ Len(equity_curve) >= 2
    /\ \E i \in 1..Len(processed) : IsClose(processed[i]) /\ ~PassesBurnIn(processed[i].ts)

\* The Date column of a list of allocation records.
Dates(allocs) == [i \in 1..Len(allocs) |-> allocs[i].Date]

\* C5: the target-allocation history is append-only, and whenever a run
\* has completed it holds one record for each trading-system invocation
\* made on the session so far, in invocation order.
C5_HistoryHoldsEveryInvocation ==
    /\ [][IsPrefix(target_allocations, target_allocations')]_vars
    /\ [](phase = "ready" /\ runs >= 1 => Dates(target_allocations) = invocations)

\* day is the last Mon-Fri day of its calendar month.
IsLastBusinessDayOfMonth(day) ==
    /\ IsBusinessDay(day)
    /\ \A e \in (day + 1)..MonthLastDay(MonthOf(day)) : ~IsBusinessDay(e)

\* One run has completed on a MONTHLY session whose range spans three
\* calendar months and whose burn-in is the first scheduled instant.
C6_Case ==
    /\ phase = "ready" /\ runs = 1
    /\ rebalance_pd = MONTHLY
    /\ MonthOf(DayOf(end_dt)) = MonthOf(DayOf(start_dt)) + 2
    /\ rebalance_schedule # <<>>
    /\ burn_in_dt = rebalance_schedule[1]

\* The closes from burn-in on, and those of them on a month's last business day.
ClosesFromBurnIn == SelectSeq(processed, LAMBDA e : IsClose(e) /\ e.ts >= burn_in_dt)

MonthEndClosesFromBurnIn ==
    SelectSeq(ClosesFromBurnIn, LAMBDA e : IsLastBusinessDayOfMonth(DayOf(e.ts)))

\* C6: after one run of such a session no equity or allocation entry is
\* dated before burn-in, the allocation history holds exactly one entry for
\* the burn-in month-end and for each later month-end the stream reaches
\* (one per month end of the range when start and end are dates), and the
\* equity curve holds exactly one entry per market close from burn-in on.
C6_MonthlyEndToEnd ==
    C6_Case =>
        /\ \A i \in 1..Len(equity_curve) : equity_curve[i][1] >= burn_in_dt
        /\ \A i \in 1..Len(target_allocations) : target_allocations[i].Date >= burn_in_dt
        /\ \E i \in 1..Len(processed) : processed[i].ts < burn_in_dt
        /\ Dates(target_allocations) =
              [i \in 1..Len(MonthEndClosesFromBurnIn) |-> MonthEndClosesFromBurnIn[i].ts]
        /\ target_allocations[1].Date = burn_in_dt
        /\ SlotOf(start_dt) = Midnight /\ SlotOf(end_dt) = Midnight =>
              Len(target_allocations) =
                  Cardinality({d \in DayOf(start_dt)..DayOf(end_dt) :
                                  IsLastBusinessDayOfMonth(d)})
        /\ [i \in 1..Len(equity_curve) |-> equity_curve[i][1]] =
              [i \in 1..Len(ClosesFromBurnIn) |-> ClosesFromBurnIn[i].ts]

\* The run of a session from Thursday 25 February to Friday 30 April, both
\* given as dates: three month ends, and closes before and after burn-in.
C6_Witness ==
    /\ C6_Case
    /\ SlotOf(start_dt) = Midnight /\ SlotOf(end_dt) = Midnight
    /\ Len(target_allocations) = 3
    /\ Len(equity_curve) > 3
    /\ \E i \in 1..Len(processed) : IsClose(processed[i]) /\ processed[i].ts < burn_in_dt

\* C7: one run of a NEVER session without burn-in invokes the trading
\* system exactly once: the single scheduled instant is the timestamp of
\* exactly one event of the stream.
C7_NeverRunsOnce ==
    phase = "ready" /\ runs = 1 /\ rebalance_pd = NEVER /\ burn_in_dt = NoDt =>
        /\ Len(invocations) = 1
        /\ Cardinality({i \in 1..Len(processed) :
                           processed[i].ts = rebalance_schedule[1]}) = 1

\* The cases of a missing requirement.
MissingRequirement(args) ==
    \/ args.rebalance_pd = WEEKLY /\ ~args.rebalance_weekday
    \/ args.long_only /\ ~args.cash_buffer_percentage
    \/ ~args.long_only /\ ~args.gross_leverage

\* C8: a construction with WEEKLY and no weekday, long_only and no cash
\* buffer percentage, or long/short and no gross leverage fails with the
\* configuration error (a ValueError in this code base), and so does the
\* generator asked for a WEEKLY schedule.
C8_ConfigurationErrors ==
    /\ phase = "failed" /\ MissingRequirement(failed_args) => error = "ValueError"
    /\ phase = "generated" /\ gen_args.rebal_pd = WEEKLY =>
          gen_result.error = "ValueError"

\* C9: a WEEKLY schedule is generated, through the generator and through a
\* session given rebalance_weekday: every timestamp falls on one weekday,
\* at the anchor time, and consecutive timestamps are 7 days apart.
C9_WeeklySchedule ==
    /\ phase = "generated" /\ gen_args.rebal_pd = WEEKLY =>
          /\ gen_result.error = "none"
          /\ \A i \in 1..Len(gen_result.rebalances) :
                /\ Weekday(DayOf(gen_result.rebalances[i])) =
                       Weekday(DayOf(gen_result.rebalances[1]))
                /\ SlotOf(gen_result.rebalances[i]) =
                       (IF gen_args.pre_market THEN MarketOpen ELSE MarketClose)
          /\ \A i \in 1..(Len(gen_result.rebalances) - 1) :
                DayOf(gen_result.rebalances[i + 1]) = DayOf(gen_result.rebalances[i]) + 7
    /\ phase = "failed" =>
          ~(/\ failed_args.rebalance_pd = WEEKLY
            /\ failed_args.rebalance_weekday
            /\ ~MissingRequirement(failed_args))

\* A direct MONTHLY call of the generator has returned.
MonthlyGenerated == phase = "generated" /\ gen_args.rebal_pd = MONTHLY

\* How many generated timestamps fall in calendar month m.
GeneratedIn(m) ==
    Cardinality({i \in 1..Len(gen_result.rebalances) :
                    MonthOf(DayOf(gen_result.rebalances[i])) = m})

\* Every generated timestamp is its month's last business day at the anchor.
AllBusinessMonthEnds ==
    \A i \in 1..Len(gen_result.rebalances) :
        /\ IsLastBusinessDayOfMonth(DayOf(gen_result.rebalances[i]))
        /\ SlotOf(gen_result.rebalances[i]) =
               (IF gen_args.pre_market THEN MarketOpen ELSE MarketClose)

NeverGenerated == phase = "generated" /\ gen_args.rebal_pd = NEVER

FirstBusinessDayAfter(day, next) ==
    /\ next > day
    /\ IsBusinessDay(next)
    /\ \A d \in (day + 1)..(next - 1) : ~IsBusinessDay(d)

C11_NeverSingleBusinessDay ==
    NeverGenerated =>
        /\ gen_result.error = "none"
        /\ Len(gen_result.rebalances) = 1
        /\ LET start == gen_args.start_dt
               only == gen_result.rebalances[1]
           IN  /\ Weekday(DayOf(start)) \in 0..4 => only = start
               /\ Weekday(DayOf(start)) \in 5..6 =>
                     /\ FirstBusinessDayAfter(DayOf(start), DayOf(only))
                     /\ Weekday(DayOf(only)) = 0

\* A Sunday start has been moved to the Monday that follows it.
C11_Witness ==
    /\ NeverGenerated
    /\ Weekday(DayOf(gen_args.start_dt)) = 6
    /\ gen_result.rebalances = <<TS(DayOf(gen_args.start_dt) + 1, SlotOf(gen_args.start_dt))>>

(***************************************************************************)
(* C12.  Period DAILY: the generated timestamps are exactly the business   *)
(* days (Monday to Friday) of [start, end], the days of both endpoints     *)
(* included when they are business days, each at the anchor time (14:30    *)
(* when pre_market is true, 21:00 otherwise): no weekend day appears and   *)
(* no business day of the range is missing.                                *)
(***************************************************************************)
DailyGenerated == phase = "generated" /\ gen_args.rebal_pd = DAILY

AnchorTime == IF gen_args.pre_market THEN MarketOpen ELSE MarketClose

BusinessDaysInRange ==
    {d \in DayOf(gen_args.start_dt)..DayOf(gen_args.end_dt) : Weekday(d) \in 0..4}

C12_DailyBusinessDays ==
    DailyGenerated =>
        /\ gen_result.error = "none"
        /\ {gen_result.rebalances[i] : i \in 1..Len(gen_result.rebalances)}
              = {TS(d, AnchorTime) : d \in BusinessDaysInRange}
        /\ Len(gen_result.rebalances) = Cardinality(BusinessDaysInRange)

\* A pre-market range from a Friday to a Monday: the two endpoints, and
\* nothing for the weekend between them.
C12_Witness ==
    /\ DailyGenerated
    /\ gen_args.pre_market
    /\ Weekday(DayOf(gen_args.start_dt)) = 4
    /\ DayOf(gen_args.end_dt) = DayOf(gen_args.start_dt) + 3
    /\ gen_result.rebalances = <<TS(DayOf(gen_args.start_dt), MarketOpen),
                                 TS(DayOf(gen_args.end_dt), MarketOpen)>>

(***************************************************************************)
(* C13.  For every period and every timezone of start and end (UTC or      *)
(* naive), every timestamp of a generated schedule is expressed in UTC.    *)
(***************************************************************************)
C13_ScheduleInUTC ==
    (phase = "generated" /\ gen_result.error = "none" /\ gen_result.rebalances # <<>>)
        => gen_tz = "UTC"

(***************************************************************************)
(* C14.  Constructing the allocation container from a dict fails with an   *)
(* error naming the broken invariant: "empty" for an empty dict,           *)
(* "non-positive weight" when some weight is <= 0 (reported in preference  *)
(* to a sum mismatch), "sum mismatch" when every weight is positive and    *)
(* |sum - 1| >= 1e-6.  It succeeds exactly when the dict is non-empty,     *)
(* every weight is > 0 and |sum - 1| < 1e-6, and then holds the weights    *)
(* given, neither clamped nor renormalized.                                *)
(***************************************************************************)
AllocationTried == phase \in {"allocated", "rejected"} /\ given_allocation.kind = "dict"

GivenEmpty == given_allocation.items = <<>>

GivenNonPositive ==
    \E i \in 1..Len(given_allocation.items) : given_allocation.items[i][2] <= 0

GivenSumMismatch == Abs(SumWeights(given_allocation.items) - One) >= Tolerance

RejectedWith(message) == phase = "rejected" /\ error = message

C14_ConstructionValidates ==
    AllocationTried =>
        /\ GivenEmpty => RejectedWith("ValueError: dictionary cannot be empty")
        /\ (~GivenEmpty /\ GivenNonPositive) =>
              RejectedWith("ValueError: all weights must be greater than zero")
        /\ (~GivenEmpty /\ ~GivenNonPositive /\ GivenSumMismatch) =>
              RejectedWith("ValueError: Weights must sum to 1")
        /\ (~GivenEmpty /\ ~GivenNonPositive /\ ~GivenSumMismatch) => phase = "allocated"
        /\ (phase = "allocated" /\ allocation = given_allocation) =>
              self_allocation = given_allocation

\* A dict with a zero weight whose sum is wrong as well has been rejected
\* for the weight.
C14_Witness ==
    /\ AllocationTried
    /\ GivenNonPositive
    /\ GivenSumMismatch
    /\ RejectedWith("ValueError: all weights must be greater than zero")

(***************************************************************************)
(* C15.  The allocation container is immutable after construction:         *)
(* whatever is done to the container or to the dict the caller passed to   *)
(* the constructor, the accessors return the tickers and the weights given *)
(* at construction, and the container's invariant (non-empty, every weight *)
(* > 0, |sum - 1| < 1e-6) still holds.                                     *)
(***************************************************************************)
C15_ImmutableAfterConstruction ==
    phase = "allocated" =>
        /\ GetTickers(self_allocation) = GetTickers(given_allocation)
        /\ GetWeights(self_allocation) = GetWeights(given_allocation)
        /\ self_allocation.items # <<>>
        /\ \A i \in 1..Len(self_allocation.items) : self_allocation.items[i][2] > 0
        /\ Abs(SumWeights(self_allocation.items) - One) < Tolerance

(***************************************************************************)
(* C16.  A flat fee model with non-negative rates charges                  *)
(* |quantity| * fee_per_share + |quantity| * tax_per_share.  The cost is   *)
(* non-negative, the same for a purchase and a sale of the same size, and  *)
(* does not depend on the asset, on the consideration (its sign included)  *)
(* or on the broker: a sale of 100 shares at 0.01 and 0.002 per share      *)
(* costs 1.2.                                                              *)
(***************************************************************************)
Costed ==
    phase = "costed" /\ fee_args.fee_per_share >= 0 /\ fee_args.tax_per_share >= 0

Shares == IF fee_args.quantity >= 0 THEN fee_args.quantity ELSE 0 - fee_args.quantity

C16_FlatFeeCost ==
    Costed =>
        /\ total_cost = Shares * fee_args.fee_per_share + Shares * fee_args.tax_per_share
        /\ total_cost >= 0
        /\ (Shares = 100 /\ fee_args.fee_per_share = 10 /\ fee_args.tax_per_share = 2)
              => total_cost = 1200

\* The sale of the claim's example, made through a broker with a negative
\* consideration.
C16_Witness ==
    /\ Costed
    /\ fee_args.quantity = -100
    /\ fee_args.fee_per_share = 10
    /\ fee_args.tax_per_share = 2
    /\ fee_args.consideration < 0
    /\ fee_args.broker = "broker"
    /\ total_cost = 1200

(***************************************************************************)
(* C17.  The schedule membership check is total: for every argument, one   *)
(* whose comparison raises included, it returns a boolean and lets no      *)
(* error out.  It returns true exactly when the argument equals some       *)
(* timestamp of the schedule, and false in every other case, the raising   *)
(* one included.                                                           *)
(***************************************************************************)
MembershipChecked == phase = "ready" /\ returned.op = "_is_rebalance_event"

C17_MembershipTotal ==
    MembershipChecked =>
        /\ returned.error = "none"
        /\ returned.result \in BOOLEAN
        /\ returned.result <=>
              (/\ returned.dt >= 0
               /\ returned.dt \in {rebalance_schedule[i] : i \in 1..Len(rebalance_schedule)})

\* The check has answered False for an argument whose comparison with the
\* timestamps of a non-empty schedule raises.
C17_Witness ==
    /\ MembershipChecked
    /\ returned.dt = Unequatable
    /\ rebalance_schedule # <<>>
    /\ returned.result = FALSE

(***************************************************************************)
(* C18.  The two accessors are pure projections of the stored histories:   *)
(* called any number of times and in any order with no run in between,     *)
(* each returns what it returned before, and no call changes the stored    *)
(* equity curve, target-allocation history, schedule or burn-in timestamp. *)
(***************************************************************************)
AccessorOps == {"get_equity_curve", "get_target_allocations"}

\* A step from a session at rest to a session at rest: a call of an
\* accessor or of the membership check, no run.
NoRunBetween == phase = "ready" /\ phase' = "ready"

C18_AccessorsPure ==
    [][NoRunBetween =>
          /\ equity_curve' = equity_curve
          /\ target_allocations' = target_allocations
          /\ rebalance_schedule' = rebalance_schedule
          /\ burn_in_dt' = burn_in_dt
          /\ \A op \in AccessorOps :
                (returned'.op = op /\ recalled[op] # NoReturn) => returned' = recalled[op]]_vars

\* After a run that recorded equity both accessors have been called, the
\* equity accessor last, and it returned the rows it is on record for.
C18_Witness ==
    /\ phase = "ready"
    /\ runs > 0
    /\ equity_curve # <<>>
    /\ recalled.get_target_allocations # NoReturn
    /\ returned.op = "get_equity_curve"
    /\ returned.rows # <<>>
    /\ returned = recalled.get_equity_curve

(***************************************************************************)
(* C19.  In every state of a session (before any run, after a run in which *)
(* no rebalance fired, after a run with rebalances) the target-allocation  *)
(* accessor returns a table indexed by exactly the dates of the equity     *)
(* curve; each date carries the allocation of the most recent rebalance at *)
(* or before it, and no value where none precedes it; the table is         *)
(* restricted to the dates on or after burn_in_dt when that is set.        *)
(***************************************************************************)
EquityDates == [i \in 1..Len(equity_curve) |-> DayOf(equity_curve[i][1])]

FromBurnIn(day) == burn_in_dt = NoDt \/ day >= DayOf(burn_in_dt)

\* The date of the latest recorded rebalance on or before day, NoDt if none.
LatestRebalance(day) ==
    LET upTo == {dt \in {target_allocations[j].Date : j \in 1..Len(target_allocations)} :
                    DayOf(dt) <= day}
    IN  IF upTo = {} THEN NoDt ELSE CHOOSE dt \in upTo : \A other \in upTo : other <= dt

C19_AllocationsTable ==
    (phase = "ready" /\ returned.op = "get_target_allocations") =>
        LET dates == SelectSeq(EquityDates, FromBurnIn)
        IN  /\ returned.error = "none"
            /\ Len(returned.rows) = Len(dates)
            /\ \A i \in 1..Len(dates) :
                  /\ returned.rows[i].Date = dates[i]
                  /\ returned.rows[i].value[1] = LatestRebalance(dates[i])

(***************************************************************************)
(* C20.  During run the events are processed one at a time, in the order   *)
(* the engine yields them.  For every event, one before burn-in or one     *)
(* that is neither scheduled nor a close included, the broker is updated   *)
(* to the event's timestamp exactly once, strictly before any signals      *)
(* refresh, trading-system invocation and equity read of that event.       *)
(* Within an event the order is: broker update, signals refresh,           *)
(* trading-system invocation, equity recording; so the equity recorded at  *)
(* a rebalancing close is read after the trading system has run.           *)
(***************************************************************************)
StepOfCall(op) ==
    CASE op = "broker.update" -> 1
      [] op = "signals.update" -> 2
      [] op = "qts" -> 3
      [] op = "broker.get_account_total_equity" -> 4

OpsOf(log) == {log[i].op : i \in 1..Len(log)}

C20_OrderWithinEvent ==
    [][AtEvent =>
          /\ processed' = Append(processed, NextEvent)
          /\ sim_engine' = Tail(sim_engine)
          /\ calls' # <<>>
          /\ calls'[1] = [op |-> "broker.update", dt |-> NextEvent.ts]
          /\ \A i \in 2..Len(calls') : calls'[i].op # "broker.update"
          /\ \A i \in 1..Len(calls') : calls'[i].dt = NextEvent.ts
          /\ \A i \in 1..Len(calls'), j \in 1..Len(calls') :
                i < j => StepOfCall(calls'[i].op) < StepOfCall(calls'[j].op)
          /\ broker'.current_dt = NextEvent.ts
          /\ {"qts", "broker.get_account_total_equity"} \subseteq OpsOf(calls') =>
                equity_curve'[Len(equity_curve')] =
                    <<NextEvent.ts, <<NextEvent.ts, broker.orders + 1>>>>]_vars

\* A close at which all four steps were taken, the second close of its run:
\* the equity recorded carries the order the trading system has just placed.
C20_Witness ==
    /\ phase = "running"
    /\ Len(processed) >= 4
    /\ Len(calls) = 4
    /\ calls[2].op = "signals.update"
    /\ calls[3].op = "qts"
    /\ calls[4].op = "broker.get_account_total_equity"
    /\ equity_curve[Len(equity_curve)] = <<broker.current_dt, <<broker.current_dt, broker.orders>>>>
    /\ broker.orders >= 1

(***************************************************************************)
(* C21.  During run the signals collection is refreshed at an event's      *)
(* timestamp if and only if a signals collection is configured and the     *)
(* event is a market-close event.  The refresh happens at most once per    *)
(* event, whatever the burn-in timestamp (a close before burn_in_dt        *)
(* included) and whatever the schedule, and never on a market-open event.  *)
(***************************************************************************)
SignalsCalls(log) == SelectSeq(log, LAMBDA c : c.op = "signals.update")

C21_SignalsOnCloseOnly ==
    [][AtEvent =>
          /\ Len(SignalsCalls(calls')) <= 1
          /\ (SignalsCalls(calls') # <<>>) <=>
                (signals /\ NextEvent.event_type = "market_close")
          /\ SignalsCalls(calls') # <<>> =>
                /\ SignalsCalls(calls')[1].dt = NextEvent.ts
                /\ signals_dt' = NextEvent.ts
          /\ SignalsCalls(calls') = <<>> => signals_dt' = signals_dt]_vars

\* The signals have been refreshed at a close that precedes burn_in_dt and
\* is not in the schedule.
C21_Witness ==
    /\ phase = "running"
    /\ signals
    /\ processed # <<>>
    /\ processed[Len(processed)].event_type = "market_close"
    /\ burn_in_dt # NoDt
    /\ processed[Len(processed)].ts < burn_in_dt
    /\ processed[Len(processed)].ts \notin
          {rebalance_schedule[i] : i \in 1..Len(rebalance_schedule)}
    /\ signals_dt = processed[Len(processed)].ts
    /\ SignalsCalls(calls) # <<>>

(***************************************************************************)
(* C22.  A failure raised by the broker's update or by the trading system  *)
(* while an event is processed is not suppressed by run: it reaches the    *)
(* caller of run, no later event of the stream is processed, and no equity *)
(* record is appended for the failing event.                               *)
(***************************************************************************)
RunFailed == error \in {"raised by broker.update", "raised by qts"}

FailingEvent == processed[Len(processed)]

C22_FailurePropagates ==
    RunFailed =>
        /\ phase = "aborted"
        /\ processed # <<>>
        /\ calls # <<>>
        /\ calls[Len(calls)] =
              [op |-> IF error = "raised by qts" THEN "qts" ELSE "broker.update",
               dt |-> FailingEvent.ts]
        /\ \A i \in 1..Len(sim_engine) : sim_engine[i].ts > FailingEvent.ts
        /\ \A i \in 1..(Len(processed) - 1) : processed[i].ts < FailingEvent.ts
        /\ \A i \in 1..Len(equity_curve) : equity_curve[i][1] # FailingEvent.ts

\* The trading system has raised at a close on or after burn-in, with
\* equity recorded for an earlier close and events still waiting in the
\* stream: run has ended there.
C22_Witness ==
    /\ phase = "aborted"
    /\ error = "raised by qts"
    /\ FailingEvent.event_type = "market_close"
    /\ burn_in_dt = NoDt \/ FailingEvent.ts >= burn_in_dt
    /\ equity_curve # <<>>
    /\ sim_engine # <<>>

(***************************************************************************)
(* C23.  The rebalance schedule is computed once, at the construction of   *)
(* the session, and is strictly increasing.  run, the membership check and *)
(* the two accessors leave it unchanged, so that in every reachable state  *)
(* it is the schedule computed at construction.                            *)
(***************************************************************************)
SessionBuilt == phase \in {"ready", "running"}

StrictlyIncreasing(seq) == \A i \in 1..(Len(seq) - 1) : seq[i] < seq[i + 1]

C23_ScheduleFixed ==
    /\ [](SessionBuilt => StrictlyIncreasing(rebalance_schedule))
    /\ [][SessionBuilt => rebalance_schedule' = rebalance_schedule]_vars

\* A session with several scheduled instants has run, and the membership
\* check and both accessors have been called on it since.
C23_Witness ==
    /\ phase = "ready"
    /\ runs > 0
    /\ Len(rebalance_schedule) >= 2
    /\ invocations # <<>>
    /\ returned.op = "_is_rebalance_event"
    /\ recalled.get_equity_curve # NoReturn
    /\ recalled.get_target_allocations # NoReturn
====
